---- MODULE Spec2Model ----
(***************************************************************************)
(* State-machine model of src/main.py: the scraper's main() pipeline       *)
(* (RSS loop, HTML and Reddit fan-out with tenacity retries, the seen_items*)
(* table with is_item_seen / store_item, metrics.json): one execution of   *)
(* the process against the seen_items table earlier executions left.       *)
(*                                                                         *)
(* Time is counted in hours: timedelta(hours=h) is h, timedelta(days=d) is *)
(* 24*d.  Titles and URLs are sequences of tokens.                         *)
(***************************************************************************)
EXTENDS Integers, Sequences, FiniteSets, TLC

VARIABLES
    now,          \* the wall clock read by datetime.utcnow()
    store,        \* rows of table seen_items (persists across runs)
    metricsFile,  \* content of metrics.json (persists across runs)
    pc,           \* position of main()
    conf,         \* CONF, loaded when the process starts
    idx,          \* index of the loop main() is in
    tasks,        \* per HTML entry / subreddit: the coroutine given to gather
    rss_items,    \* main's rss_items
    deal_items,   \* main's deal_items
    metrics,      \* main's metrics dict
    exc,          \* the exception propagating in main (NoExc when none)
    writes,       \* number of times this run wrote metrics.json
    outcome,      \* how the last main() ended: "none", "returned", "raised"
    delivered,    \* what this run handed to post_to_discord / printed
    lookups,      \* history: the is_item_seen calls of this run, in order
    commits,      \* history: the store_item calls of this run, in order
    store0,       \* history: the store when this run started
    storeFault,   \* history: a store operation of this run raised
    rssLog        \* history: per RSS entry processed, how scrape_rss ended

vars == <<now, store, metricsFile, pc, conf, idx, tasks, rss_items, deal_items,
          metrics, exc, writes, outcome, delivered, lookups, commits, store0,
          storeFault, rssLog>>

-----------------------------------------------------------------------------
(* Bounds of the model *)

\* most entries one extractor call returns
MaxItems == 1
\* most rows the seen_items table holds when the process starts
MaxPrior == 1

\* clock readings: 0, the two retention boundaries and one hour past each
Instants == {0, 1, 2, 24, 25}

\* positions of main at which the clock is let advance: before the run, and
\* between the admission pass and the store loop
TickPoints == {"idle", "aclose"}

\* (title, link) pairs the sources can serve: equal titles under two links
\* and an unrelated title
T_sale == <<"big", "sale">>
T_other == <<"other", "news">>
U_one == <<"u1">>
U_two == <<"u2">>
Entries == { <<T_sale, U_one>>, <<T_sale, U_two>>, <<T_other, U_one>> }

\* (title, permalink) pairs a subreddit listing can serve
P_one == <<"p1">>
RedditPosts == { <<T_sale, P_one>> }

-----------------------------------------------------------------------------
(* Configuration: CONF = yaml.safe_load(config/sources.yaml) *)

FeedTypes == [ rss   |-> [max_age_hours |-> 1],
               deals |-> [max_age_days |-> 1] ]

\* no source configured
EmptyConf ==
    [ rss |-> <<>>, html |-> <<>>, reddit |-> <<>>, feed_types |-> FeedTypes ]

\* two HTML pages, fetched concurrently
ShopsConf ==
    [ rss |-> <<>>, html |-> <<"shopA", "shopB">>, reddit |-> <<>>,
      feed_types |-> FeedTypes ]

\* a feed and a page
FeedShopConf ==
    [ rss |-> <<"feedA">>, html |-> <<"shopA">>, reddit |-> <<>>,
      feed_types |-> FeedTypes ]

\* one subreddit
SubConf ==
    [ rss |-> <<>>, html |-> <<>>, reddit |-> <<"subA">>,
      feed_types |-> FeedTypes ]

Configs == {EmptyConf, ShopsConf, FeedShopConf, SubConf}

\* dict.get(key, default) on a record used as a dict
Get(d, key, default) == IF key \in DOMAIN d THEN d[key] ELSE default

DefaultMaxAgeHours == 24
DefaultMaxAgeDays == 30
DefaultSimilarityThreshold == 95

Hours(h) == h
Days(d) == 24 * d

-----------------------------------------------------------------------------
(* Items *)

Range(s) == {s[i] : i \in 1..Len(s)}

\* hashlib.md5(...).hexdigest(): a digest of the content string (collisions of
\* md5 itself are not modelled)
md5(content) == <<"md5", content>>

\* Item.calculate_hash: the digest of title and url concatenated
calculate_hash(title, url) == md5(title \o url)

\* an Item whose hash also digests the source name
Item_HashWithSource(title, url, source, type, fetched) ==
    [ title |-> title, url |-> url, source |-> source, type |-> type,
      fetched |-> fetched, hash |-> md5(title \o url \o <<source>>) ]

\* Item({...}): the dict plus its 'hash'
Item(title, url, source, type, fetched) ==
    [ title |-> title, url |-> url, source |-> source, type |-> type,
      fetched |-> fetched, hash |-> calculate_hash(title, url) ]

\* datetime.isoformat / datetime.fromisoformat
isoformat(t) == <<"iso", t>>
fromisoformat(s) == s[2]

\* rapidfuzz token_set_ratio at token granularity: 100 when one title's token
\* set contains the other's, otherwise the share of common tokens
token_set_ratio(t1, t2) ==
    LET A == Range(t1)
        B == Range(t2)
    IN  IF A = {} \/ B = {} THEN 0
        ELSE IF A \subseteq B \/ B \subseteq A THEN 100
        ELSE (200 * Cardinality(A \cap B)) \div (Cardinality(A) + Cardinality(B))

-----------------------------------------------------------------------------
(* The seen_items table *)

\* type_config = CONF['feed_types'].get(feed_type, {})
TypeConfig(cf, feed_type) == Get(cf.feed_types, feed_type, <<>>)

\* "if now > expires_at" of is_item_seen, taken the other way at the boundary
Expired_AtBoundary(t, expires_at) == t >= expires_at

\* is_item_seen, "Check if expired": now > expires_at
Expired(t, expires_at) == t > expires_at

\* SELECT posted_at, expires_at FROM seen_items WHERE hash=?
SelectByHash(st, h) == {r \in st : r.hash = h}

\* SELECT title FROM seen_items WHERE type='rss' AND hash != ?
SelectSimilarCandidates(st, h) == {r \in st : r.type = "rss" /\ r.hash # h}

\* a lookup whose similarity scan decides: a feed item is also answered "seen"
\* when the title of a row stored under another hash is similar enough
is_item_seen_SimilarityDecides(cf, st, item, t) ==
    \/ \E r \in SelectByHash(st, item.hash) : ~Expired(t, fromisoformat(r.expires_at))
    \/ /\ item.type = "rss"
       /\ \E similar \in SelectSimilarCandidates(st, item.hash) :
             token_set_ratio(item.title, similar.title)
               > Get(TypeConfig(cf, "rss"), "similarity_threshold",
                     DefaultSimilarityThreshold)

\* is_item_seen(conn, item) called at time t
is_item_seen(cf, st, item, t) ==
    LET feed_type == item.type
        type_config == TypeConfig(cf, feed_type)
        rows == SelectByHash(st, item.hash)
    IN  IF rows = {} THEN FALSE
        ELSE LET row == CHOOSE r \in rows : TRUE
                 expires_at == fromisoformat(row.expires_at)
             IN  IF Expired(t, expires_at) THEN FALSE
                 ELSE IF /\ feed_type = "rss"
                         /\ \E similar \in SelectSimilarCandidates(st, item.hash) :
                               token_set_ratio(item.title, similar.title)
                                 > Get(type_config, "similarity_threshold",
                                       DefaultSimilarityThreshold)
                      THEN TRUE
                      ELSE TRUE

\* store_item, "Calculate expiration"
ExpiresAt(cf, feed_type, t) ==
    LET type_config == TypeConfig(cf, feed_type)
    IN  IF feed_type = "rss"
        THEN t + Hours(Get(type_config, "max_age_hours", DefaultMaxAgeHours))
        ELSE t + Days(Get(type_config, "max_age_days", DefaultMaxAgeDays))

\* the row store_item writes
NewRow(cf, item, t) ==
    [ hash |-> item.hash, type |-> item.type, title |-> item.title,
      posted_at |-> isoformat(t),
      expires_at |-> isoformat(ExpiresAt(cf, item.type, t)) ]

\* INSERT OR IGNORE in place of INSERT OR REPLACE: an existing row is kept
store_item_Ignore(cf, st, item, t) ==
    IF SelectByHash(st, item.hash) # {} THEN st ELSE st \cup {NewRow(cf, item, t)}

\* an upsert that first deletes the rows whose expires_at has passed
store_item_PurgeExpired(cf, st, item, t) ==
    {r \in st : r.hash # item.hash /\ ~Expired(t, fromisoformat(r.expires_at))}
    \cup {NewRow(cf, item, t)}

\* an upsert that keeps the posted_at of the row it overwrites
store_item_KeepPosted(cf, st, item, t) ==
    LET old == SelectByHash(st, item.hash)
        new == NewRow(cf, item, t)
    IN  {r \in st : r.hash # item.hash}
        \cup {IF old = {} THEN new
              ELSE [new EXCEPT !.posted_at = (CHOOSE r \in old : TRUE).posted_at]}

\* store_item(conn, item) called at time t: INSERT OR REPLACE, then commit
store_item(cf, st, item, t) ==
    {r \in st : r.hash # item.hash} \cup {NewRow(cf, item, t)}

-----------------------------------------------------------------------------
(* Extractors and the retry wrapper *)

\* sequences of at most k elements of S
SeqUpTo(S, k) == UNION {[1..n -> S] : n \in 0..k}

\* what an extractor call may return: at most MaxItems entries
Listings(S) == SeqUpTo(S, MaxItems)

\* s without the elements that fail keep(_)
RECURSIVE SelectSeq2(_, _, _, _, _)
SelectSeq2(s, cf, st, t, i) ==
    IF i > Len(s) THEN <<>>
    ELSE (IF is_item_seen(cf, st, s[i], t) THEN <<>> ELSE <<s[i]>>)
         \o SelectSeq2(s, cf, st, t, i + 1)

\* [i for i in items if not is_item_seen(conn, i)]
Unseen(cf, st, items, t) == SelectSeq2(items, cf, st, t, 1)

\* the [:20] of "for e in feed.entries[:20]"
EntryCap == 20

\* scrape_rss: the items built from the feed's first entries, those with an
\* empty title or link skipped
RssItems(L, name, t) ==
    LET first == SubSeq(L, 1, IF Len(L) <= EntryCap THEN Len(L) ELSE EntryCap)
        kept == SelectSeq(first, LAMBDA e : e[1] # <<>> /\ e[2] # <<>>)
    IN  [i \in 1..Len(kept) |-> Item(kept[i][1], kept[i][2], name, "rss", t)]

\* scrape_html: one item per selected element
HtmlItems(L, name, t) ==
    [i \in 1..Len(L) |-> Item(L[i][1], L[i][2], name, "deals", t)]

\* scrape_reddit: one item per child, url = "https://reddit.com" + permalink
RedditBase == <<"reddit.com">>
RedditItems(L, sub, t) ==
    [i \in 1..Len(L) |-> Item(L[i][1], RedditBase \o L[i][2], sub, "deals", t)]

\* @retry(stop=stop_after_attempt(3), ...)
StopAfterAttempt == 3
\* wait_exponential(min=2, max=30), multiplier 1, base 2
WaitMin == 2
WaitMax == 30

Max(a, b) == IF a >= b THEN a ELSE b
Min(a, b) == IF a <= b THEN a ELSE b

\* wait_exponential without its lower clamp
wait_exponential_NoMin(attempt_number) == Min(2 ^ (attempt_number - 1), WaitMax)

\* tenacity wait_exponential: max(max(0, min), min(multiplier * 2^(n-1), max))
wait_exponential(attempt_number) ==
    Max(Max(0, WaitMin), Min(2 ^ (attempt_number - 1), WaitMax))

\* kinds of failure of client.get / raise_for_status
FetchErrors == {"transient", "permanent"}

NewTask == [ status |-> "new", attempts |-> 0, waits |-> <<>>, last |-> "none",
             result |-> <<>>, fail |-> "none" ]

Settled(task) == task.status \in {"ok", "failed"}

\* gather without return_exceptions: the first exception ends the wait
GatherReturned_FirstException(names) ==
    \/ \A i \in 1..Len(names) : Settled(tasks[names[i]])
    \/ \E i \in 1..Len(names) : tasks[names[i]].status = "failed"

\* asyncio.gather(*tasks, return_exceptions=True) has its results
GatherReturned(names) == \A i \in 1..Len(names) : Settled(tasks[names[i]])

-----------------------------------------------------------------------------
(* main() *)

NoExc == "none"

EmptyMetrics == [rss_updates |-> <<>>, new_deals |-> <<>>, errors |-> <<>>]

\* nothing posted or printed yet
NoDelivery == [mode |-> "none", hooks |-> <<>>, posts |-> <<>>, printed |-> <<>>]

\* [{"title": i["title"], "source": i["source"]} for i in items]
Summary(items) ==
    [i \in 1..Len(items) |-> [title |-> items[i].title, source |-> items[i].source]]

\* the is_item_seen calls made on items at time t, with their answers
LookupEvents(cf, st, items, t) ==
    [i \in 1..Len(items) |->
        [item |-> items[i], at |-> t, seen |-> is_item_seen(cf, st, items[i], t)]]

TaskNames(cf) == Range(cf.html) \cup Range(cf.reddit)

\* rows earlier executions can have written: store_item, at instant 0, of a
\* feed item of each entry, of a page item and of a subreddit post
PriorRows ==
    {NewRow(EmptyConf, Item(e[1], e[2], "earlier", "rss", 0), 0) : e \in Entries}
    \cup {NewRow(EmptyConf, Item(T_sale, U_one, "earlier", "deals", 0), 0)}
    \cup {NewRow(EmptyConf, Item(e[1], RedditBase \o e[2], "earlier", "deals", 0), 0) :
        e \in RedditPosts}

\* the tables the process can start with: hash is the primary key
PriorStores ==
    {S \in SUBSET PriorRows :
        /\ Cardinality(S) <= MaxPrior
        /\ \A r1, r2 \in S : r1.hash = r2.hash => r1 = r2}

\* the process starts: CONF is loaded, the table is what earlier runs left
Init ==
    /\ now = 0
    /\ store \in PriorStores
    /\ metricsFile = <<>>
    /\ pc = "idle"
    /\ conf \in Configs
    /\ idx = 1
    /\ tasks = [n \in TaskNames(conf) |-> NewTask]
    /\ rss_items = <<>>
    /\ deal_items = <<>>
    /\ metrics = EmptyMetrics
    /\ exc = NoExc
    /\ writes = 0
    /\ outcome = "none"
    /\ delivered = NoDelivery
    /\ lookups = <<>>
    /\ commits = <<>>
    /\ store0 = store
    /\ storeFault = FALSE
    /\ rssLog = <<>>

\* time passes
Tick ==
    /\ pc \in TickPoints
    /\ \E t \in Instants : t > now /\ now' = t
    /\ UNCHANGED <<store, metricsFile, pc, conf, idx, tasks, rss_items,
                   deal_items, metrics, exc, writes, outcome, delivered,
                   lookups, commits, store0, storeFault, rssLog>>

\* main parses its arguments and initialises metrics
StartRun ==
    /\ pc = "idle"
    /\ metrics' = EmptyMetrics
    /\ store0' = store
    /\ pc' = "connect"
    /\ UNCHANGED <<now, store, metricsFile, conf, idx, tasks, rss_items,
                   deal_items, exc, writes, outcome, delivered, lookups, commits,
                   storeFault, rssLog>>

\* conn = db_connect()
ConnectOk ==
    /\ pc = "connect"
    /\ pc' = "rss"
    /\ idx' = 1
    /\ UNCHANGED <<now, store, metricsFile, conf, tasks, rss_items, deal_items,
                   metrics, exc, writes, outcome, delivered, lookups, commits,
                   store0, storeFault, rssLog>>

\* db_connect() raises
ConnectFails ==
    /\ pc = "connect"
    /\ exc' = "StoreError"
    /\ storeFault' = TRUE
    /\ pc' = "except"
    /\ UNCHANGED <<now, store, metricsFile, conf, idx, tasks, rss_items,
                   deal_items, metrics, writes, outcome, delivered, lookups,
                   commits, store0, rssLog>>

\* one iteration of "for entry in CONF.get('rss', [])": scrape_rss returns
\* the feed's items and they are looked up
RssEntryOk ==
    /\ pc = "rss" /\ idx <= Len(conf.rss)
    /\ \E L \in Listings(Entries) :
          LET items == RssItems(L, conf.rss[idx], now)
          IN  /\ rss_items' = rss_items \o Unseen(conf, store, items, now)
              /\ lookups' = lookups \o LookupEvents(conf, store, items, now)
              /\ rssLog' = Append(rssLog, [source |-> conf.rss[idx], how |-> "ok",
                                           items |-> items])
    /\ idx' = idx + 1
    /\ UNCHANGED <<now, store, metricsFile, pc, conf, tasks, deal_items, metrics,
                   exc, writes, outcome, delivered, commits, store0, storeFault>>

\* scrape_rss finds feed.bozo set: it logs and returns []
RssEntryBozo ==
    /\ pc = "rss" /\ idx <= Len(conf.rss)
    /\ rssLog' = Append(rssLog, [source |-> conf.rss[idx], how |-> "bozo",
                                 items |-> <<>>])
    /\ idx' = idx + 1
    /\ UNCHANGED <<now, store, metricsFile, pc, conf, tasks, rss_items, deal_items,
                   metrics, exc, writes, outcome, delivered, lookups, commits,
                   store0, storeFault>>

\* scrape_rss raises: caught by the loop's except
RssEntryRaises ==
    /\ pc = "rss" /\ idx <= Len(conf.rss)
    /\ metrics' = [metrics EXCEPT !.errors =
                      Append(@, [kind |-> "rss", source |-> conf.rss[idx]])]
    /\ rssLog' = Append(rssLog, [source |-> conf.rss[idx], how |-> "raised",
                                 items |-> <<>>])
    /\ idx' = idx + 1
    /\ UNCHANGED <<now, store, metricsFile, pc, conf, tasks, rss_items, deal_items,
                   exc, writes, outcome, delivered, lookups, commits, store0,
                   storeFault>>

\* scrape_rss returns items and an is_item_seen call raises inside the list
\* comprehension: caught by the same except, nothing is added to rss_items
RssEntryLookupFails ==
    /\ pc = "rss" /\ idx <= Len(conf.rss)
    /\ \E L \in Listings(Entries) :
          /\ Len(RssItems(L, conf.rss[idx], now)) > 0
          /\ rssLog' = Append(rssLog, [source |-> conf.rss[idx],
                                       how |-> "lookup_failed",
                                       items |-> RssItems(L, conf.rss[idx], now)])
    /\ metrics' = [metrics EXCEPT !.errors =
                      Append(@, [kind |-> "rss", source |-> conf.rss[idx]])]
    /\ storeFault' = TRUE
    /\ idx' = idx + 1
    /\ UNCHANGED <<now, store, metricsFile, pc, conf, tasks, rss_items, deal_items,
                   exc, writes, outcome, delivered, lookups, commits, store0>>

\* the RSS loop ends; the event loop and the client are set up and the HTML
\* coroutines are created and handed to gather
HtmlStart ==
    /\ pc = "rss" /\ idx > Len(conf.rss)
    /\ tasks' = [n \in DOMAIN tasks |->
                    IF n \in Range(conf.html)
                    THEN [NewTask EXCEPT !.status = "ready"] ELSE tasks[n]]
    /\ pc' = "html_gather"
    /\ UNCHANGED <<now, store, metricsFile, conf, idx, rss_items, deal_items,
                   metrics, exc, writes, outcome, delivered, lookups, commits,
                   store0, storeFault, rssLog>>

InGather == pc \in {"html_gather", "reddit_gather"}

\* one attempt of fetch_html / fetch_json fails (client.get or
\* raise_for_status raises): tenacity sleeps and retries, or gives up with
\* RetryError
AttemptFails(n) ==
    /\ InGather /\ tasks[n].status = "ready"
    /\ \E k \in FetchErrors :
          LET a == tasks[n].attempts + 1
          IN  tasks' = [tasks EXCEPT ![n] =
                  IF a >= StopAfterAttempt
                  THEN [@ EXCEPT !.attempts = a, !.last = k,
                                 !.status = "failed", !.fail = "RetryError"]
                  ELSE [@ EXCEPT !.attempts = a, !.last = k,
                                 !.status = "sleeping",
                                 !.waits = Append(@, wait_exponential(a))]]
    /\ UNCHANGED <<now, store, metricsFile, pc, conf, idx, rss_items, deal_items,
                   metrics, exc, writes, outcome, delivered, lookups, commits,
                   store0, storeFault, rssLog>>

\* the backoff sleep of a task ends
Wake(n) ==
    /\ InGather /\ tasks[n].status = "sleeping"
    /\ tasks' = [tasks EXCEPT ![n].status = "ready"]
    /\ UNCHANGED <<now, store, metricsFile, pc, conf, idx, rss_items, deal_items,
                   metrics, exc, writes, outcome, delivered, lookups, commits,
                   store0, storeFault, rssLog>>

\* an attempt succeeds and scrape_html / scrape_reddit builds its items; the
\* retry wrapper's state goes with the call
AttemptReturns(n) ==
    /\ InGather /\ tasks[n].status = "ready"
    /\ \E L \in Listings(IF n \in Range(conf.html) THEN Entries ELSE RedditPosts) :
          tasks' = [tasks EXCEPT ![n] =
             [NewTask EXCEPT !.status = "ok",
                             !.result = IF n \in Range(conf.html)
                                        THEN HtmlItems(L, n, now)
                                        ELSE RedditItems(L, n, now)]]
    /\ UNCHANGED <<now, store, metricsFile, pc, conf, idx, rss_items, deal_items,
                   metrics, exc, writes, outcome, delivered, lookups, commits,
                   store0, storeFault, rssLog>>

\* an attempt succeeds and the rest of the scraper raises (soup.select on a
\* malformed selector, post["data"] missing): outside the retry wrapper
AttemptThenScraperRaises(n) ==
    /\ InGather /\ tasks[n].status = "ready"
    /\ tasks' = [tasks EXCEPT ![n] =
           [NewTask EXCEPT !.status = "failed", !.fail = "ScraperError"]]
    /\ UNCHANGED <<now, store, metricsFile, pc, conf, idx, rss_items, deal_items,
                   metrics, exc, writes, outcome, delivered, lookups, commits,
                   store0, storeFault, rssLog>>

\* run_until_complete(gather(...)) returns the HTML results
HtmlGatherDone ==
    /\ pc = "html_gather" /\ GatherReturned(conf.html)
    /\ pc' = "html_results"
    /\ idx' = 1
    /\ UNCHANGED <<now, store, metricsFile, conf, tasks, rss_items, deal_items,
                   metrics, exc, writes, outcome, delivered, lookups, commits,
                   store0, storeFault, rssLog>>

\* one iteration of a "for ..., result in zip(..., results)" loop over names:
\* an exception becomes an error entry, a list is looked up
ResultStep(names, kind) ==
    /\ idx <= Len(names)
    /\ IF tasks[names[idx]].status = "failed"
       THEN /\ metrics' = [metrics EXCEPT !.errors =
                              Append(@, [kind |-> kind, source |-> names[idx]])]
            /\ UNCHANGED <<deal_items, lookups>>
       ELSE /\ deal_items' =
                   deal_items \o Unseen(conf, store, tasks[names[idx]].result, now)
            /\ lookups' =
                   lookups \o LookupEvents(conf, store, tasks[names[idx]].result, now)
            /\ UNCHANGED metrics
    /\ idx' = idx + 1
    /\ UNCHANGED <<now, store, metricsFile, pc, conf, tasks, rss_items, exc,
                   writes, outcome, delivered, commits, store0, storeFault,
                   rssLog>>

\* an is_item_seen call of such an iteration raises: nothing catches it
\* before the inner finally
ResultLookupFails(names) ==
    /\ idx <= Len(names)
    /\ tasks[names[idx]].status = "ok"
    /\ Len(tasks[names[idx]].result) > 0
    /\ exc' = "StoreError"
    /\ storeFault' = TRUE
    /\ pc' = "aclose"
    /\ UNCHANGED <<now, store, metricsFile, conf, idx, tasks, rss_items, deal_items,
                   metrics, writes, outcome, delivered, lookups, commits, store0,
                   rssLog>>

HtmlResult == pc = "html_results" /\ ResultStep(conf.html, "scrape")

HtmlLookupFails == pc = "html_results" /\ ResultLookupFails(conf.html)

\* the HTML loop ends; the Reddit coroutines are created and handed to gather
RedditStart ==
    /\ pc = "html_results" /\ idx > Len(conf.html)
    /\ tasks' = [n \in DOMAIN tasks |->
                    IF n \in Range(conf.reddit)
                    THEN [NewTask EXCEPT !.status = "ready"] ELSE tasks[n]]
    /\ pc' = "reddit_gather"
    /\ UNCHANGED <<now, store, metricsFile, conf, idx, rss_items, deal_items,
                   metrics, exc, writes, outcome, delivered, lookups, commits,
                   store0, storeFault, rssLog>>

\* run_until_complete(gather(...)) returns the Reddit results
RedditGatherDone ==
    /\ pc = "reddit_gather" /\ GatherReturned(conf.reddit)
    /\ pc' = "reddit_results"
    /\ idx' = 1
    /\ UNCHANGED <<now, store, metricsFile, conf, tasks, rss_items, deal_items,
                   metrics, exc, writes, outcome, delivered, lookups, commits,
                   store0, storeFault, rssLog>>

RedditResult == pc = "reddit_results" /\ ResultStep(conf.reddit, "reddit")

RedditLookupFails == pc = "reddit_results" /\ ResultLookupFails(conf.reddit)

\* the Reddit loop ends and the inner try is left
RedditResultsDone ==
    /\ pc = "reddit_results" /\ idx > Len(conf.reddit)
    /\ pc' = "aclose"
    /\ UNCHANGED <<now, store, metricsFile, conf, idx, tasks, rss_items, deal_items,
                   metrics, exc, writes, outcome, delivered, lookups, commits,
                   store0, storeFault, rssLog>>

\* finally: loop.run_until_complete(client.aclose()); then the store loop,
\* or the outer except when an exception is propagating
Aclose ==
    /\ pc = "aclose"
    /\ pc' = IF exc = NoExc THEN "store" ELSE "except"
    /\ idx' = 1
    /\ UNCHANGED <<now, store, metricsFile, conf, tasks, rss_items, deal_items,
                   metrics, exc, writes, outcome, delivered, lookups, commits,
                   store0, storeFault, rssLog>>

\* a store loop over the feed items only
NewItems_RssOnly == rss_items

\* rss_items + deal_items
NewItems == rss_items \o deal_items

\* one iteration of "for item in rss_items + deal_items: store_item(conn, item)"
StoreOne ==
    /\ pc = "store" /\ idx <= Len(NewItems)
    /\ store' = store_item(conf, store, NewItems[idx], now)
    /\ commits' = Append(commits, [hash |-> NewItems[idx].hash, at |-> now])
    /\ idx' = idx + 1
    /\ UNCHANGED <<now, metricsFile, pc, conf, tasks, rss_items, deal_items,
                   metrics, exc, writes, outcome, delivered, lookups, store0,
                   storeFault, rssLog>>

\* store_item raises (execute or commit fails): the rows committed by the
\* earlier iterations stay
StoreFails ==
    /\ pc = "store" /\ idx <= Len(NewItems)
    /\ exc' = "StoreError"
    /\ storeFault' = TRUE
    /\ pc' = "except"
    /\ UNCHANGED <<now, store, metricsFile, conf, idx, tasks, rss_items, deal_items,
                   metrics, writes, outcome, delivered, lookups, commits, store0,
                   rssLog>>

\* the store loop ends: "Update metrics"
UpdateMetrics ==
    /\ pc = "store" /\ idx > Len(NewItems)
    /\ metrics' = [metrics EXCEPT !.rss_updates = Summary(rss_items),
                                  !.new_deals = Summary(deal_items)]
    /\ pc' = "report"
    /\ UNCHANGED <<now, store, metricsFile, conf, idx, tasks, rss_items, deal_items,
                   exc, writes, outcome, delivered, lookups, commits, store0,
                   storeFault, rssLog>>

\* WEBHOOKS, from DISCORD_WEBHOOKS / DISCORD_WEBHOOK: read by post_to_discord
\* only, so its value is drawn where main reaches the reporting step
HookLists == { <<>>, <<"hookA", "hookB">> }

\* how requests.post(hook, json=payload) can end: status 204, another status,
\* an exception
PostOutcomes == {"204", "500", "raised"}

\* the [:10] of "for item in sorted(...)[:10]"
DisplayLimit == 10

\* sorted_so_far with x put after every element whose key is >= x's
RECURSIVE InsertByFetchedDesc(_, _)
InsertByFetchedDesc(sorted_so_far, x) ==
    IF sorted_so_far = <<>> THEN <<x>>
    ELSE IF Head(sorted_so_far).fetched >= x.fetched
         THEN <<Head(sorted_so_far)>> \o InsertByFetchedDesc(Tail(sorted_so_far), x)
         ELSE <<x>> \o sorted_so_far

\* sorted(items, key=lambda x: x.get("fetched"), reverse=True): a stable sort,
\* latest first, items of equal key in their original order; the keys are
\* isoformat strings of one layout, which compare as their instants do
RECURSIVE SortedByFetchedDesc(_, _)
SortedByFetchedDesc(items, i) ==
    IF i = 0 THEN <<>>
    ELSE InsertByFetchedDesc(SortedByFetchedDesc(items, i - 1), items[i])

\* the first items of the batch as they come, without the sort
Display_Unsorted(items) ==
    SubSeq(items, 1, Min(Len(items), DisplayLimit))

\* the items whose fields post_to_discord puts in the embed
Display(items) ==
    LET s == SortedByFetchedDesc(items, Len(items))
    IN  SubSeq(s, 1, Min(Len(s), DisplayLimit))

\* one iteration of "for hook in WEBHOOKS"
PostAttempt(items, item_type, hooks, outcomes, i) ==
    [ hook |-> hooks[i], type |-> item_type, fields |-> Display(items),
      outcome |-> outcomes[i] ]

\* a hook loop without its try/except: the first exception of requests.post
\* leaves post_to_discord
post_to_discord_Propagate(items, item_type, hooks, outcomes) ==
    IF hooks = <<>> \/ items = <<>> THEN [posts |-> <<>>, raised |-> FALSE]
    ELSE LET bad == {i \in 1..Len(hooks) : outcomes[i] = "raised"}
             last == IF bad = {} THEN Len(hooks)
                     ELSE CHOOSE i \in bad : \A j \in bad : i <= j
         IN  [ posts |-> [i \in 1..last |->
                             PostAttempt(items, item_type, hooks, outcomes, i)],
               raised |-> bad # {} ]

\* post_to_discord(items, item_type): nothing without webhooks or items; else
\* one post per webhook, in order, whatever the earlier posts did
post_to_discord(items, item_type, hooks, outcomes) ==
    IF hooks = <<>> \/ items = <<>> THEN [posts |-> <<>>, raised |-> FALSE]
    ELSE [ posts |-> [i \in 1..Len(hooks) |->
                         PostAttempt(items, item_type, hooks, outcomes, i)],
           raised |-> FALSE ]

\* "Post updates if not dry run": post_to_discord for the feed items, then for
\* the deals; in a dry run both lists are printed whole.  Hooks and Outcomes
\* are the webhook lists and the results of requests.post the step may meet.
ReportWith(Hooks, Outcomes) ==
    /\ pc = "report"
    /\ \E dry_run \in BOOLEAN, hooks \in Hooks :
       \E o_rss, o_deals \in [1..Len(hooks) -> Outcomes] :
          LET r_rss == post_to_discord(rss_items, "rss", hooks, o_rss)
              r_deals == post_to_discord(deal_items, "deals", hooks, o_deals)
          IN  IF dry_run
              THEN /\ delivered' = [NoDelivery EXCEPT !.mode = "printed",
                                       !.printed = rss_items \o deal_items]
                   /\ pc' = "finally"
                   /\ UNCHANGED exc
              ELSE IF r_rss.raised
              THEN /\ delivered' = [NoDelivery EXCEPT !.mode = "posted",
                                       !.hooks = hooks, !.posts = r_rss.posts]
                   /\ exc' = "DeliveryError"
                   /\ pc' = "except"
              ELSE IF r_deals.raised
              THEN /\ delivered' = [NoDelivery EXCEPT !.mode = "posted",
                                       !.hooks = hooks,
                                       !.posts = r_rss.posts \o r_deals.posts]
                   /\ exc' = "DeliveryError"
                   /\ pc' = "except"
              ELSE /\ delivered' = [NoDelivery EXCEPT !.mode = "posted",
                                       !.hooks = hooks,
                                       !.posts = r_rss.posts \o r_deals.posts]
                   /\ pc' = "finally"
                   /\ UNCHANGED exc
    /\ UNCHANGED <<now, store, metricsFile, conf, idx, tasks, rss_items, deal_items,
                   metrics, writes, outcome, lookups, commits, store0,
                   storeFault, rssLog>>

\* the reporting step of a run whose posts all succeed (failing posts are
\* explored by ReportAnyOutcome, from every admitted batch)
Report == ReportWith(HookLists, {"204"})

\* an except clause that ends the run without reaching the finally clause
AfterExcept_SkipFinally == "done"

\* where control goes after the outer except clause re-raises
AfterExcept == "finally"

\* except Exception: the critical error is recorded and re-raised
Except ==
    /\ pc = "except"
    /\ metrics' = [metrics EXCEPT !.errors =
                      Append(@, [kind |-> "critical", source |-> exc])]
    /\ pc' = AfterExcept
    /\ outcome' = IF AfterExcept = "done" THEN "raised" ELSE outcome
    /\ UNCHANGED <<now, store, metricsFile, conf, idx, tasks, rss_items, deal_items,
                   exc, writes, delivered, lookups, commits, store0, storeFault,
                   rssLog>>

\* finally: metrics.json is written, the connection is closed, main returns
\* or the exception leaves main
Finally ==
    /\ pc = "finally"
    /\ metricsFile' = metrics
    /\ writes' = writes + 1
    /\ outcome' = IF exc = NoExc THEN "returned" ELSE "raised"
    /\ pc' = "done"
    /\ UNCHANGED <<now, store, conf, idx, tasks, rss_items, deal_items, metrics,
                   exc, delivered, lookups, commits, store0, storeFault, rssLog>>

Next ==
    \/ Tick
    \/ StartRun
    \/ ConnectOk
    \/ ConnectFails
    \/ RssEntryOk
    \/ RssEntryBozo
    \/ RssEntryRaises
    \/ RssEntryLookupFails
    \/ HtmlStart
    \/ \E n \in DOMAIN tasks : AttemptFails(n)
    \/ \E n \in DOMAIN tasks : Wake(n)
    \/ \E n \in DOMAIN tasks : AttemptReturns(n)
    \/ \E n \in DOMAIN tasks : AttemptThenScraperRaises(n)
    \/ HtmlGatherDone
    \/ HtmlResult
    \/ HtmlLookupFails
    \/ RedditStart
    \/ RedditGatherDone
    \/ RedditResult
    \/ RedditLookupFails
    \/ RedditResultsDone
    \/ Aclose
    \/ StoreOne
    \/ StoreFails
    \/ UpdateMetrics
    \/ Report
    \/ Except
    \/ Finally

Spec == Init /\ [][Next]_vars

\* the interpreter and the event loop keep running the process: every
\* client.get ends (timeout=20), every backoff sleep ends, and the blocking
\* calls without a timeout (feedparser.parse, sqlite3, requests.post) return
FairSpec == Spec /\ WF_vars(Next)

-----------------------------------------------------------------------------
(* The same code on wider inputs: is_item_seen on any table and threshold,   *)
(* an extractor on any listing, and main from its store loop on for any      *)
(* admitted batch and any results of the webhook posts                       *)

\* most rows of the table an is_item_seen call reads
MaxRows == 2
\* most entries of a feed, elements of a page or children of a listing
MaxListing == 21
\* most items of an admitted batch
MaxBatch == 11
\* most items of a batch fetched at the later of two instants
MaxLate == 2

\* values of feed_types.rss.similarity_threshold (unset: the default)
SimilarityThresholds == {0, 50, 100}

ConfWithThreshold(th) ==
    [EmptyConf EXCEPT !.feed_types.rss =
        [max_age_hours |-> 1, similarity_threshold |-> th]]

LookupConfigs == {EmptyConf} \cup {ConfWithThreshold(th) : th \in SimilarityThresholds}

\* tables of seen_items: hash is the primary key
TableStates ==
    {S \in SUBSET PriorRows :
        /\ Cardinality(S) <= MaxRows
        /\ \A r1, r2 \in S : r1.hash = r2.hash => r1 = r2}

UnitInit ==
    /\ now = 0
    /\ store = {}
    /\ metricsFile = <<>>
    /\ pc = "unit"
    /\ conf = EmptyConf
    /\ idx = 1
    /\ tasks = [n \in TaskNames(EmptyConf) |-> NewTask]
    /\ rss_items = <<>>
    /\ deal_items = <<>>
    /\ metrics = EmptyMetrics
    /\ exc = NoExc
    /\ writes = 0
    /\ outcome = "none"
    /\ delivered = NoDelivery
    /\ lookups = <<>>
    /\ commits = <<>>
    /\ store0 = {}
    /\ storeFault = FALSE
    /\ rssLog = <<>>

\* is_item_seen(conn, item) at time t, on table st under configuration cf
CallIsItemSeen ==
    /\ pc = "unit"
    /\ \E cf \in LookupConfigs, st \in TableStates, e \in Entries,
          type \in {"rss", "deals"}, t \in Instants :
          /\ conf' = cf
          /\ store' = st
          /\ store0' = st
          /\ now' = t
          /\ lookups' = LookupEvents(cf, st, <<Item(e[1], e[2], "feedA", type, t)>>, t)
    /\ pc' = "unit_done"
    /\ UNCHANGED <<metricsFile, idx, tasks, rss_items, deal_items, metrics, exc,
                   writes, outcome, delivered, commits, storeFault, rssLog>>

\* a listing of n entries (title, link), entry empty_at having an empty field
RawListing(n, empty_at, field) ==
    [i \in 1..n |->
        << IF i = empty_at /\ field = "title" THEN <<>> ELSE <<ToString(i)>>,
           IF i = empty_at /\ field = "link" THEN <<>> ELSE <<"u", ToString(i)>> >>]

ExtractorKinds == {"rss", "html", "reddit"}

\* one extractor call on a listing, and the lookup of what it returns, as in
\* main's "extend([i for i in ... if not is_item_seen(conn, i)])"; a page
\* element always has a link (its href or the entry's url)
CallExtractor ==
    /\ pc = "unit"
    /\ \E kind \in ExtractorKinds, n \in 0..MaxListing :
       \E empty_at \in {0, 1, n} \cap (0..n),
          field \in (IF kind = "html" THEN {"title"} ELSE {"title", "link"}) :
          LET L == RawListing(n, empty_at, field)
              items == CASE kind = "rss" -> RssItems(L, "feedA", now)
                         [] kind = "html" -> HtmlItems(L, "shopA", now)
                         [] OTHER -> RedditItems(L, "subA", now)
          IN  /\ rssLog' = <<[source |-> kind, how |-> "ok", items |-> items,
                              raw |-> L]>>
              /\ lookups' = LookupEvents(conf, store, items, now)
              /\ rss_items' = IF kind = "rss"
                              THEN Unseen(conf, store, items, now) ELSE <<>>
              /\ deal_items' = IF kind = "rss"
                               THEN <<>> ELSE Unseen(conf, store, items, now)
    /\ pc' = "store"
    /\ idx' = 1
    /\ UNCHANGED <<now, store, metricsFile, conf, tasks, metrics, exc, writes,
                   outcome, delivered, commits, store0, storeFault>>

\* the admission pass ends with n admitted items, the first n_rss of them feed
\* items, those at the positions late fetched an hour after the others
AdmittedBatch ==
    /\ pc = "unit"
    /\ \E n \in 0..MaxBatch :
       \E n_rss \in {0, 1} \cap (0..n),
          late \in {S \in SUBSET (1..n) : Cardinality(S) <= MaxLate} :
          LET fetched(i) == IF i \in late THEN 1 ELSE 0
          IN  /\ rss_items' = [i \in 1..n_rss |->
                    Item(<<ToString(i)>>, <<"u", ToString(i)>>, "feedA", "rss",
                         fetched(i))]
              /\ deal_items' = [i \in 1..(n - n_rss) |->
                    Item(<<ToString(n_rss + i)>>, <<"u", ToString(n_rss + i)>>,
                         "shopA", "deals", fetched(n_rss + i))]
    /\ now' = 1
    /\ pc' = "store"
    /\ idx' = 1
    /\ UNCHANGED <<store, metricsFile, conf, tasks, metrics, exc, writes, outcome,
                   delivered, lookups, commits, store0, storeFault, rssLog>>

\* the reporting step, whatever each post to a webhook does
ReportAnyOutcome == ReportWith(HookLists, PostOutcomes)

UnitNext ==
    \/ CallIsItemSeen
    \/ CallExtractor
    \/ AdmittedBatch
    \/ StoreOne
    \/ StoreFails
    \/ UpdateMetrics
    \/ ReportAnyOutcome
    \/ Except
    \/ Finally

UnitSpec == UnitInit /\ [][UnitNext]_vars

-----------------------------------------------------------------------------
(* Properties *)

Events == {lookups[i] : i \in 1..Len(lookups)}

ExpiresOf(r) == fromisoformat(r.expires_at)
PostedOf(r) == fromisoformat(r.posted_at)

Admitted(item) == item \in Range(rss_items) \cup Range(deal_items)

\* the run went through its whole try block
RunCompleted == pc = "done" /\ exc = NoExc

\* the time of the last store_item call of this run for hash h
RECURSIVE LastCommitAt(_, _)
LastCommitAt(h, i) ==
    IF i = 0 THEN -1
    ELSE IF commits[i].hash = h THEN commits[i].at ELSE LastCommitAt(h, i - 1)

\* number of entries of metrics["errors"] about source n
ErrCount(n) ==
    Cardinality({i \in 1..Len(metrics.errors) : metrics.errors[i].source = n})

\* the items of source n that were looked up, in order
LookedUp(n) ==
    LET ev == SelectSeq(lookups, LAMBDA e : e.item.source = n)
    IN  [i \in 1..Len(ev) |-> ev[i].item]

\* C1: a lookup made at a time now <= expires_at of the row committed for the
\* item's signature answers "seen", and the item is not admitted; now equal to
\* expires_at still counts as not expired.
C1_SeenWithinRetention ==
    \A e \in Events : \A r \in store0 :
        (r.hash = e.item.hash /\ e.at <= ExpiresOf(r))
            => (e.seen /\ ~Admitted(e.item))

\* C1: a lookup made exactly at the row's expires_at was answered "seen"
C1_Witness ==
    \E e \in Events : \E r \in store0 :
        r.hash = e.item.hash /\ e.at = ExpiresOf(r) /\ e.seen

\* C2: a lookup made after the expires_at of the row stored for the item's
\* signature admits the item; once the run has completed, the table holds
\* exactly one row for that signature, with posted_at the time of the run's
\* last store_item call for it, not before the lookup, and with an expires_at
\* later than the old one.
C2_StaleRowRefreshed ==
    \A e \in Events : \A r \in store0 :
        (r.hash = e.item.hash /\ ExpiresOf(r) < e.at)
            => /\ ~e.seen
               /\ Admitted(e.item)
               /\ RunCompleted =>
                    /\ Cardinality(SelectByHash(store, e.item.hash)) = 1
                    /\ \A r2 \in SelectByHash(store, e.item.hash) :
                          /\ PostedOf(r2) = LastCommitAt(e.item.hash, Len(commits))
                          /\ PostedOf(r2) >= e.at
                          /\ ExpiresOf(r2) > ExpiresOf(r)

\* C2: a completed run that looked up an item whose row had expired
C2_Witness ==
    /\ RunCompleted
    /\ \E e \in Events : \E r \in store0 :
          r.hash = e.item.hash /\ ExpiresOf(r) < e.at

\* C3: of two items of one run with the same signature, the later one is
\* rejected once the earlier one has been admitted (the earlier admission is
\* committed before the later item is examined).
C3_OneAdmittedPerSignature ==
    \A i, j \in 1..Len(lookups) :
        (i < j /\ lookups[i].item.hash = lookups[j].item.hash /\ ~lookups[i].seen)
            => lookups[j].seen

\* C4: an item whose signature has no row, but whose title has similarity >= 90
\* to the title of some row of the table, is rejected.
C4_NearDuplicateRejected ==
    \A e \in Events :
        ( /\ SelectByHash(store0, e.item.hash) = {}
          /\ \E r \in store0 : token_set_ratio(e.item.title, r.title) >= 90 )
            => e.seen

AdmissionDone ==
    /\ pc \in {"aclose", "store", "report", "finally", "done"}
    /\ ~storeFault

C7_BoundedRetry ==
    \A n \in DOMAIN tasks :
        /\ tasks[n].attempts <= 3
        /\ \A i \in 1..Len(tasks[n].waits) :
              tasks[n].waits[i] >= 2 /\ tasks[n].waits[i] <= 30
        /\ tasks[n].status = "sleeping" =>
              (tasks[n].attempts < 3 /\ Len(tasks[n].waits) = tasks[n].attempts)
        /\ (tasks[n].attempts = 3 /\ tasks[n].last # "none") =>
              (tasks[n].status = "failed" /\ tasks[n].fail = "RetryError")
        /\ tasks[n].fail = "RetryError" =>
              (tasks[n].attempts = 3 /\ Len(tasks[n].waits) = 2)
        /\ (AdmissionDone /\ tasks[n].fail = "RetryError") => ErrCount(n) = 1

\* C7: a call gave up after its third transient failure and the run ended with
\* its error recorded
C7_Witness ==
    /\ pc = "done"
    /\ \E n \in DOMAIN tasks :
          /\ tasks[n].fail = "RetryError" /\ tasks[n].last = "transient"
          /\ tasks[n].attempts = 3 /\ tasks[n].waits = <<2, 2>>
          /\ ErrCount(n) = 1

\* C8: after an attempt that failed with a non-transient error the call is
\* over: it made exactly one attempt and is not waiting to retry.
C8_PermanentNotRetried ==
    \A n \in DOMAIN tasks :
        tasks[n].last = "permanent"
            => (tasks[n].status = "failed" /\ tasks[n].attempts = 1)

\* C9: every execution that got past argument parsing ends, and when it has
\* ended metrics.json has been written exactly once, with the run's metrics, on
\* the normal path and on the path of a fatal error; it is never written
\* twice; with no source configured and no fatal error the artifact's lists
\* are empty.
C9_MetricsWrittenOnce ==
    /\ [](writes <= 1)
    /\ [](pc = "done" => (writes = 1 /\ metricsFile = metrics))
    /\ []((pc = "done" /\ conf = EmptyConf /\ exc = NoExc) => metricsFile = EmptyMetrics)
    /\ (pc = "connect") ~> (pc = "done")

\* C9: a run ended by a fatal error wrote metrics.json
C9_Witness ==
    /\ pc = "done" /\ exc # NoExc /\ writes = 1
    /\ \E i \in 1..Len(metricsFile.errors) : metricsFile.errors[i].kind = "critical"

\* C10: when a store operation of the run raised, the table after the run is
\* the table before the run.
C10_StoreFailureLeavesStoreUnchanged ==
    (pc = "done" /\ storeFault) => store = store0

\* C11: no failure inside the pipeline ends the run with an exception leaving
\* main: every run that has ended returned normally, with its errors recorded
\* and its reporting step reached.
C11_NoUncaughtException ==
    pc = "done" => (outcome = "returned" /\ exc = NoExc /\ delivered.mode # "none")

\* the posts of delivered made for one batch, in order
PostsOf(item_type) == SelectSeq(delivered.posts, LAMBDA a : a.type = item_type)

\* C12: a failed post (an exception or a status other than 204) never leaves
\* post_to_discord: for each non-empty batch every configured webhook is
\* attempted, in order, the feed batch before the deals batch; the run goes on
\* to write its summary and main returns normally.
C12_DeliveryFailureContained ==
    delivered.mode = "posted" =>
        /\ exc = NoExc
        /\ pc \in {"finally", "done"}
        /\ [i \in 1..Len(PostsOf("rss")) |-> PostsOf("rss")[i].hook]
              = (IF rss_items # <<>> THEN delivered.hooks ELSE <<>>)
        /\ [i \in 1..Len(PostsOf("deals")) |-> PostsOf("deals")[i].hook]
              = (IF deal_items # <<>> THEN delivered.hooks ELSE <<>>)
        /\ delivered.posts = PostsOf("rss") \o PostsOf("deals")
        /\ pc = "done" => (outcome = "returned" /\ writes = 1 /\ metricsFile = metrics)

\* C12: the post to the first webhook raised, the second webhook was still
\* attempted for the same batch, and the run ended normally
C12_Witness ==
    /\ pc = "done" /\ outcome = "returned" /\ writes = 1
    /\ \E i \in 1..(Len(delivered.posts) - 1) :
          /\ delivered.posts[i].outcome = "raised"
          /\ delivered.posts[i + 1].type = delivered.posts[i].type
          /\ delivered.posts[i].hook = delivered.hooks[1]
          /\ delivered.posts[i + 1].hook = delivered.hooks[2]
          /\ delivered.posts[i + 1].outcome = "500"

\* the retention window store_item resolves for a row's type
RetentionOf(cf, feed_type) ==
    IF feed_type = "rss"
    THEN Hours(Get(TypeConfig(cf, "rss"), "max_age_hours", DefaultMaxAgeHours))
    ELSE Days(Get(TypeConfig(cf, feed_type), "max_age_days", DefaultMaxAgeDays))

\* C13: every row has expires_at = posted_at + the retention window of its
\* type, and the posted_at of a row committed in this run is the time of the
\* last store_item call for its signature; a step changes no row other than
\* the row of the signature it commits (a lookup changes none).
C13_ExpiryIsPostedPlusRetention ==
    /\ [](\A r \in store :
            /\ ExpiresOf(r) = PostedOf(r) + RetentionOf(conf, r.type)
            /\ LastCommitAt(r.hash, Len(commits)) # -1
                  => PostedOf(r) = LastCommitAt(r.hash, Len(commits)))
    /\ [][\A r \in store :
            \/ r \in store'
            \/ /\ Len(commits') = Len(commits) + 1
               /\ commits'[Len(commits')].hash = r.hash]_vars

\* C13: a run ended after committing, later than the earlier run did, a row
\* for a signature the table did not hold, and the row of the earlier run is
\* still there as it was
C13_Witness ==
    /\ pc = "done"
    /\ \E r0 \in store0 : \E r \in store :
          /\ r0 \in store
          /\ r.hash # r0.hash /\ PostedOf(r) > PostedOf(r0)
          /\ ExpiresOf(r) = PostedOf(r) + RetentionOf(conf, r.type)

\* C14: no store operation (lookup or commit) of a run happens before every
\* fetch task of the run has reached a terminal state.
C14_StoreOpsAfterAllFetches ==
    (lookups # <<>> \/ commits # <<>>)
        => \A n \in DOMAIN tasks : Settled(tasks[n])

\* C15: an extractor call of any kind contributes at most 20 items, each built
\* from one of the first 20 entries of its listing.
C15_AtMostTwentyItems ==
    \A k \in 1..Len(rssLog) :
        /\ Len(rssLog[k].items) <= 20
        /\ \A i \in 1..Len(rssLog[k].items) :
              \E j \in 1..Len(rssLog[k].raw) :
                  j <= 20 /\ rssLog[k].raw[j][1] = rssLog[k].items[i].title

\* the items the run posted or printed
DeliveredItems ==
    Range(delivered.printed)
    \cup UNION {Range(delivered.posts[i].fields) : i \in 1..Len(delivered.posts)}

\* C16: no item with an empty title or an empty URL is admitted, committed to
\* the store or reported, whichever extractor produced it.
C16_NoEmptyTitleOrUrl ==
    /\ \A x \in Range(NewItems) : x.title # <<>> /\ x.url # <<>>
    /\ \A r \in store : r.title # <<>>
    /\ \A x \in DeliveredItems : x.title # <<>> /\ x.url # <<>>

\* C17: each post carries min(10, size of its batch) items of the batch, no
\* item twice, latest fetched first, and no item left out was fetched later
\* than an item shown; once the reporting step is reached every admitted item
\* has a row in the store and an entry in the run's metrics.
C17_DisplayTopTen ==
    /\ \A i \in 1..Len(delivered.posts) :
          LET batch == IF delivered.posts[i].type = "rss"
                       THEN rss_items ELSE deal_items
              f == delivered.posts[i].fields
          IN  /\ Len(f) = (IF Len(batch) <= 10 THEN Len(batch) ELSE 10)
              /\ \A a \in 1..Len(f) : f[a] \in Range(batch)
              /\ \A a, b \in 1..Len(f) :
                    a < b => (f[a] # f[b] /\ f[a].fetched >= f[b].fetched)
              /\ \A x \in Range(batch) \ Range(f) :
                    \A a \in 1..Len(f) : f[a].fetched >= x.fetched
    /\ delivered.mode # "none" =>
          /\ \A x \in Range(NewItems) : SelectByHash(store, x.hash) # {}
          /\ Len(metrics.rss_updates) = Len(rss_items)
          /\ Len(metrics.new_deals) = Len(deal_items)
          /\ \A i \in 1..Len(rss_items) :
                metrics.rss_updates[i].title = rss_items[i].title
          /\ \A i \in 1..Len(deal_items) :
                metrics.new_deals[i].title = deal_items[i].title

\* C17: of a batch of more than 10 deals, a post showed 10, led by the batch's
\* last item (the latest fetched), and the run ended with the 11 committed
C17_Witness ==
    /\ pc = "done" /\ Len(deal_items) > 10
    /\ \E i \in 1..Len(delivered.posts) :
          /\ delivered.posts[i].type = "deals"
          /\ Len(delivered.posts[i].fields) = 10
          /\ delivered.posts[i].fields[1] = deal_items[Len(deal_items)]
    /\ Cardinality(store) = Len(deal_items)

\* C18: no step removes a signature from the store; a step that makes a
\* lookup leaves the store as it is; a step that changes the store is a
\* commit, which touches only the row of the signature it commits.
C18_StoreNeverShrinks ==
    [][ /\ {r.hash : r \in store} \subseteq {r.hash : r \in store'}
        /\ lookups' # lookups => store' = store
        /\ store' # store =>
              /\ Len(commits') = Len(commits) + 1
              /\ \A r \in store :
                    r.hash # commits'[Len(commits')].hash => r \in store'
              /\ \A r \in store' \ store :
                    r.hash = commits'[Len(commits')].hash ]_vars

\* C18: a row whose expires_at has passed is still in the store at the end of
\* a run that committed another signature
C18_Witness ==
    /\ pc = "done" /\ commits # <<>>
    /\ \E r0 \in store0 :
          /\ r0 \in store
          /\ ExpiresOf(r0) < now
          /\ \A k \in 1..Len(commits) : commits[k].hash # r0.hash

C20_CommittedBeforeDelivery ==
    delivered.mode # "none" =>
        /\ \A x \in Range(NewItems) :
              /\ \E k \in 1..Len(commits) : commits[k].hash = x.hash
              /\ is_item_seen(conf, store, x, now)
              /\ \A r \in SelectByHash(store, x.hash) : \A t \in Instants :
                    (t >= now /\ t <= ExpiresOf(r)) => is_item_seen(conf, store, x, t)
        /\ DeliveredItems \subseteq Range(NewItems)

\* C20: every post of a run failed and the admitted items are in the store
C20_Witness ==
    /\ pc = "done" /\ delivered.mode = "posted" /\ delivered.posts # <<>>
    /\ \A i \in 1..Len(delivered.posts) : delivered.posts[i].outcome # "204"
    /\ \A x \in Range(NewItems) : is_item_seen(conf, store, x, now)

====
